---------------------------- MODULE Spec2Model ----------------------------
(***************************************************************************)
(* A model of the gem5 statistics post-processing scripts                  *)
(*   TP4_EX4_q4_q5_q10_q11/analysis/q5_collect_a15.py  (report extractor)  *)
(*   TP4_EX4_Joab/analysis/q4_estimate_a7.py           (estimator)         *)
(*                                                                         *)
(* Python values are modelled as follows.                                  *)
(*   str    a TLA+ string; the character at i is SubSeq(s, i, i)           *)
(*   float  an exact rational [n |-> numerator, d |-> denominator] in      *)
(*          lowest terms with d > 0; not-a-number is [n |-> 0, d |-> 0].   *)
(*          Rounding and the infinities of IEEE doubles are not modelled.  *)
(*   raise  an operator that can raise returns [exc |-> <exception name>]  *)
(*   dict   a function over its key set; the four per-application dicts,   *)
(*          whose iteration order the program observes, are sequences of   *)
(*          records [k |-> key, v |-> value] in insertion order            *)
(*   None   the record NoneVal                                             *)
(***************************************************************************)
EXTENDS Integers, Sequences, FiniteSets, TLC

VARIABLES
    pc,              \* position of main() of the report extractor
    fs,              \* the files the invocation has read: label -> run -> file kind
    dijkstra,        \* main: dict l1 -> RunMetrics
    blowfish_enc,    \* main: dict l1 -> RunMetrics
    blowfish_dec,    \* main: dict l1 -> RunMetrics
    blowfish_total,  \* main: dict l1 -> RunMetrics
    exit_cause,      \* main: dict (app, l1) -> str
    rows,            \* main: list of CSV row dicts, in collection order
    out,             \* the output files written so far, in order
    best,            \* main: the results of best_l1 so far, app -> (l1, RunMetrics)
    err,             \* the exception that ended main(), or NoneVal
    call             \* the last direct call of a function: [fn, args, ret]

vars == <<pc, fs, dijkstra, blowfish_enc, blowfish_dec, blowfish_total,
          exit_cause, rows, out, best, err, call>>

NoneVal == [none |-> TRUE]

(***************************************************************************)
(* Characters and strings                                                  *)
(***************************************************************************)

\* s[i:i+1], the character at index i (from 1), "" outside the string
Ch(s, i) == IF i \in 1..Len(s) THEN SubSeq(s, i, i) ELSE ""

\* the characters of s from index a to index b, clipped to the string
Slice(s, a, b) ==
    LET hi == IF b < Len(s) THEN b ELSE Len(s)
    IN  IF a < 1 \/ a > hi THEN "" ELSE SubSeq(s, a, hi)

Digits == {"0", "1", "2", "3", "4", "5", "6", "7", "8", "9"}

\* the characters \s matches and str.strip() removes, among those a line can hold
Whitespace == {" ", "\t"}

\* the printable ASCII characters from " " (32) to "_" (95), in code point order
AsciiLow ==
    " !\"#$%&'()*+,-./0123456789:;<=>?@ABCDEFGHIJKLMNOPQRSTUVWXYZ[\\]^_"

\* the printable ASCII characters from "a" (97) to "~" (126), in code point order
AsciiHigh == "abcdefghijklmnopqrstuvwxyz{|}~"

\* the code point of a character (ord)
OrdTable ==
    [c \in {Ch(AsciiLow, i) : i \in 1..Len(AsciiLow)} |->
        31 + CHOOSE i \in 1..Len(AsciiLow) : Ch(AsciiLow, i) = c]
    @@
    [c \in {Ch(AsciiHigh, i) : i \in 1..Len(AsciiHigh)} |->
        96 + CHOOSE i \in 1..Len(AsciiHigh) : Ch(AsciiHigh, i) = c]

Ord(c) == IF c = "\t" THEN 9 ELSE OrdTable[c]

Uppers == "ABCDEFGHIJKLMNOPQRSTUVWXYZ"

Lowers == "abcdefghijklmnopqrstuvwxyz"

LowerTable ==
    [c \in {Ch(Uppers, i) : i \in 1..Len(Uppers)} |->
        Ch(Lowers, CHOOSE i \in 1..Len(Uppers) : Ch(Uppers, i) = c)]

RECURSIVE lower(_)
\* str.lower()
lower(s) ==
    IF \A i \in 1..Len(s) : Ch(s, i) \notin DOMAIN LowerTable THEN s
    ELSE (IF Head(s) \in DOMAIN LowerTable THEN LowerTable[Head(s)] ELSE Head(s))
         \o lower(Tail(s))

\* needle in s
Contains(s, needle) ==
    \E i \in 1..(Len(s) - Len(needle) + 1) : SubSeq(s, i, i + Len(needle) - 1) = needle

startswith(s, p) == Len(s) >= Len(p) /\ SubSeq(s, 1, Len(p)) = p

SetMin(S) == CHOOSE x \in S : \A y \in S : x <= y

SetMax(S) == CHOOSE x \in S : \A y \in S : x >= y

\* the first index >= i of s whose character is not in cs (Len(s) + 1 if none)
SpanIn(s, i, cs) ==
    LET stop == {j \in i..Len(s) : Ch(s, j) \notin cs}
    IN  IF stop = {} THEN Len(s) + 1 ELSE SetMin(stop)

\* the first index >= i of s whose character is in cs (Len(s) + 1 if none)
SpanNotIn(s, i, cs) ==
    LET stop == {j \in i..Len(s) : Ch(s, j) \in cs}
    IN  IF stop = {} THEN Len(s) + 1 ELSE SetMin(stop)

\* str.strip()
strip(s) ==
    LET keep == {j \in 1..Len(s) : Ch(s, j) \notin Whitespace}
    IN  IF keep = {} THEN "" ELSE SubSeq(s, SetMin(keep), SetMax(keep))

RECURSIVE splitlines(_)
\* str.splitlines(), for the line break "\n"
splitlines(text) ==
    IF text = "" THEN <<>>
    ELSE LET nl == SpanNotIn(text, 1, {"\n"})
         IN  <<SubSeq(text, 1, nl - 1)>> \o splitlines(SubSeq(text, nl + 1, Len(text)))

\* str < str: lexicographic by code point
StrLt(s, t) ==
    LET m == IF Len(s) < Len(t) THEN Len(s) ELSE Len(t)
        diff == {i \in 1..m : Ch(s, i) # Ch(t, i)}
    IN  IF diff = {} THEN Len(s) < Len(t)
        ELSE Ord(Ch(s, SetMin(diff))) < Ord(Ch(t, SetMin(diff)))

(***************************************************************************)
(* Floats                                                                  *)
(***************************************************************************)

Abs(x) == IF x < 0 THEN -x ELSE x

RECURSIVE Gcd(_, _)
Gcd(a, b) == IF b = 0 THEN a ELSE Gcd(b, a % b)

\* the float n/d, d # 0
Rat(n, d) ==
    LET g == Gcd(Abs(n), Abs(d))
        s == IF d < 0 THEN -1 ELSE 1
    IN  [n |-> (s * n) \div g, d |-> (s * d) \div g]

Flt(k) == [n |-> k, d |-> 1]

\* float("nan")
NaN == [n |-> 0, d |-> 0]

\* math.isnan
isnan(x) == x.d = 0

Raised(x) == "exc" \in DOMAIN x

\* a + b on floats
FAdd(a, b) ==
    IF isnan(a) \/ isnan(b) THEN NaN ELSE Rat(a.n * b.d + b.n * a.d, a.d * b.d)

\* a < b on floats: false when either is not-a-number
FLt(a, b) == ~isnan(a) /\ ~isnan(b) /\ a.n * b.d < b.n * a.d

\* x == 0 on a float: false for not-a-number
FIsZero(x) == ~isnan(x) /\ x.n = 0

\* num / den on floats: ZeroDivisionError when den == 0, even for a not-a-number num
FDiv(num, den) ==
    IF FIsZero(den) THEN [exc |-> "ZeroDivisionError"]
    ELSE IF isnan(num) \/ isnan(den) THEN NaN
    ELSE Rat(num.n * den.d, num.d * den.n)

\* safe_div without its den == 0 test
safe_div_NoZeroCheck(num, den) ==
    IF isnan(num) \/ isnan(den) THEN NaN ELSE FDiv(num, den)

\* safe_div: not-a-number on a zero or not-a-number operand, num / den otherwise
safe_div(num, den) ==
    IF FIsZero(den) \/ isnan(num) \/ isnan(den) THEN NaN ELSE FDiv(num, den)

(***************************************************************************)
(* Files: the text of a file that exists, or a missing file                *)
(***************************************************************************)

File(text) == [exists |-> TRUE, text |-> text]

Missing == [exists |-> FALSE, text |-> ""]

(***************************************************************************)
(* The regular expressions                                                 *)
(***************************************************************************)

RECURSIVE Pow10(_)
Pow10(k) == IF k = 0 THEN 1 ELSE 10 * Pow10(k - 1)

RECURSIVE int(_)
\* int() of a string of decimal digits
int(s) ==
    IF s = "" THEN 0
    ELSE 10 * int(SubSeq(s, 1, Len(s) - 1)) + (Ord(Ch(s, Len(s))) - Ord("0"))

\* the end (the index after the last character) of the longest match of
\*   [-+]?\d+(?:\.\d+)?(?:[eE][-+]?\d+)?
\* at index p of s, or 0 when there is none
NumberEnd(s, p) ==
    LET p1 == IF Ch(s, p) \in {"-", "+"} THEN p + 1 ELSE p
        d1 == SpanIn(s, p1, Digits)
        f0 == IF Ch(s, d1) = "." THEN SpanIn(s, d1 + 1, Digits) ELSE d1
        f1 == IF f0 > d1 + 1 THEN f0 ELSE d1
        q1 == IF Ch(s, f1 + 1) \in {"-", "+"} THEN f1 + 2 ELSE f1 + 1
        e0 == IF Ch(s, f1) \in {"e", "E"} THEN SpanIn(s, q1, Digits) ELSE f1
        e1 == IF e0 > q1 THEN e0 ELSE f1
    IN  IF d1 > p1 THEN e1 ELSE 0

\* float() of a string NumberEnd matches in full
float(s) ==
    LET neg  == Ch(s, 1) = "-"
        p1   == IF Ch(s, 1) \in {"-", "+"} THEN 2 ELSE 1
        d1   == SpanIn(s, p1, Digits)
        f1   == IF Ch(s, d1) = "." THEN SpanIn(s, d1 + 1, Digits) ELSE d1
        frac == IF f1 > d1 THEN SubSeq(s, d1 + 1, f1 - 1) ELSE ""
        eneg == Ch(s, f1 + 1) = "-"
        q1   == IF Ch(s, f1 + 1) \in {"-", "+"} THEN f1 + 2 ELSE f1 + 1
        ex   == IF f1 <= Len(s) THEN int(SubSeq(s, q1, Len(s))) ELSE 0
        mant == int(SubSeq(s, p1, d1 - 1)) * Pow10(Len(frac)) + int(frac)
        num  == (IF neg THEN -mant ELSE mant) * (IF eneg THEN 1 ELSE Pow10(ex))
        den  == Pow10(Len(frac)) * (IF eneg THEN Pow10(ex) ELSE 1)
    IN  Rat(num, den)

NoMatch == [matched |-> FALSE]

\* the match of STAT_LINE_RE whose name ends before n1 and whose value is line[v0..v1)
StatMatch(line, n1, v0, v1) ==
    LET r == SpanIn(line, v1, Whitespace)
    IN  IF n1 > 1 /\ v0 > n1 /\ v1 > 0 /\ (r = Len(line) + 1 \/ Ch(line, r) = "#")
        THEN [matched |-> TRUE,
              name    |-> SubSeq(line, 1, n1 - 1),
              value   |-> SubSeq(line, v0, v1 - 1)]
        ELSE NoMatch

\* STAT_LINE_RE.match(line):
\*   ^(?P<name>[^#\s]+)\s+(?P<value>[-+]?\d+(?:\.\d+)?(?:[eE][-+]?\d+)?)\s*(?:#.*)?$
STAT_LINE_RE(line) ==
    LET n1 == SpanNotIn(line, 1, Whitespace \cup {"#"})
        v0 == SpanIn(line, n1, Whitespace)
    IN  StatMatch(line, n1, v0, NumberEnd(line, v0))

ExitPrefix == "Exiting @ tick "

ExitBecause == " because "

\* EXIT_LINE_RE.match(line) and, in the estimator, EXIT_RE.match(line):
\*   ^Exiting @ tick \d+ because (?P<cause>.*)$
EXIT_LINE_RE(line) ==
    LET t0 == Len(ExitPrefix) + 1
        t1 == SpanIn(line, t0, Digits)
        c0 == t1 + Len(ExitBecause)
    IN  IF startswith(line, ExitPrefix) /\ t1 > t0
           /\ Slice(line, t1, c0 - 1) = ExitBecause
        THEN [matched |-> TRUE, cause |-> Slice(line, c0, Len(line))]
        ELSE NoMatch

(***************************************************************************)
(* Stat-line parser, metric extractor, aggregator                          *)
(***************************************************************************)

EmptyDict == [x \in {} |-> NaN]

\* data[name] = value
DictStore(data, name, value) ==
    [x \in DOMAIN data \cup {name} |-> IF x = name THEN value ELSE data[x]]

\* the end of the body of the loop with a name stored once (setdefault)
StatLineStore_KeepFirst(data, m) ==
    IF ~m.matched THEN data
    ELSE IF m.name \in DOMAIN data THEN data
    ELSE DictStore(data, m.name, float(m.value))

\* the end of the body of parse_stats_file's loop, m the match of the line
StatLineStore(data, m) ==
    IF ~m.matched THEN data ELSE DictStore(data, m.name, float(m.value))

\* the body of parse_stats_file's loop after line = line.strip()
StatLineBody(data, line) ==
    IF line = "" \/ startswith(line, "-") THEN data
    ELSE StatLineStore(data, STAT_LINE_RE(line))

\* one pass of the body of parse_stats_file's loop: data after `line`
StatLineStep(data, line) == StatLineBody(data, strip(line))

RECURSIVE StatLines(_, _)
\* parse_stats_file's loop over the lines left
StatLines(data, lines) ==
    IF lines = <<>> THEN data
    ELSE StatLines(StatLineStep(data, Head(lines)), Tail(lines))

\* parse_stats_file without `if not stats_path.exists(): return data`: read_text()
\* raises on the missing file
parse_stats_file_NoExistsCheck(stats_path) ==
    IF ~stats_path.exists THEN [exc |-> "FileNotFoundError"]
    ELSE StatLines(EmptyDict, splitlines(stats_path.text))

\* parse_stats_file, of the file at stats_path
parse_stats_file(stats_path) ==
    IF ~stats_path.exists THEN EmptyDict
    ELSE StatLines(EmptyDict, splitlines(stats_path.text))

\* get(d, key), with its default of not-a-number
get(d, key) == IF key \in DOMAIN d THEN d[key] ELSE NaN

extract_metrics(stats) ==
    [sim_seconds       |-> get(stats, "simSeconds"),
     sim_insts         |-> get(stats, "simInsts"),
     num_cycles        |-> get(stats, "system.cpu.numCycles"),
     ipc               |-> get(stats, "system.cpu.ipc"),
     cpi               |-> get(stats, "system.cpu.cpi"),
     l1i_miss_rate     |-> get(stats, "system.cpu.icache.overallMissRate::total"),
     l1d_miss_rate     |-> get(stats, "system.cpu.dcache.overallMissRate::total"),
     l2_miss_rate      |-> get(stats, "system.l2cache.overallMissRate::total"),
     l1i_accesses      |-> get(stats, "system.cpu.icache.overallAccesses::total"),
     l1i_misses        |-> get(stats, "system.cpu.icache.overallMisses::total"),
     l1d_accesses      |-> get(stats, "system.cpu.dcache.overallAccesses::total"),
     l1d_misses        |-> get(stats, "system.cpu.dcache.overallMisses::total"),
     l2_accesses       |-> get(stats, "system.l2cache.overallAccesses::total"),
     l2_misses         |-> get(stats, "system.l2cache.overallMisses::total"),
     bp_cond_pred      |-> get(stats, "system.cpu.branchPred.condPredicted"),
     bp_cond_incorrect |-> get(stats, "system.cpu.branchPred.condIncorrect")]

\* sum_runs with the rates averaged instead of recomputed
sum_runs_AverageRates(a, b) ==
    LET half(x, y) == IF isnan(x) \/ isnan(y) THEN NaN
                      ELSE Rat(x.n * y.d + y.n * x.d, 2 * x.d * y.d)
    IN  [sim_seconds       |-> FAdd(a.sim_seconds, b.sim_seconds),
         sim_insts         |-> FAdd(a.sim_insts, b.sim_insts),
         num_cycles        |-> FAdd(a.num_cycles, b.num_cycles),
         ipc               |-> half(a.ipc, b.ipc),
         cpi               |-> half(a.cpi, b.cpi),
         l1i_miss_rate     |-> half(a.l1i_miss_rate, b.l1i_miss_rate),
         l1d_miss_rate     |-> half(a.l1d_miss_rate, b.l1d_miss_rate),
         l2_miss_rate      |-> half(a.l2_miss_rate, b.l2_miss_rate),
         l1i_accesses      |-> FAdd(a.l1i_accesses, b.l1i_accesses),
         l1i_misses        |-> FAdd(a.l1i_misses, b.l1i_misses),
         l1d_accesses      |-> FAdd(a.l1d_accesses, b.l1d_accesses),
         l1d_misses        |-> FAdd(a.l1d_misses, b.l1d_misses),
         l2_accesses       |-> FAdd(a.l2_accesses, b.l2_accesses),
         l2_misses         |-> FAdd(a.l2_misses, b.l2_misses),
         bp_cond_pred      |-> FAdd(a.bp_cond_pred, b.bp_cond_pred),
         bp_cond_incorrect |-> FAdd(a.bp_cond_incorrect, b.bp_cond_incorrect)]

sum_runs(a, b) ==
    LET sim_seconds       == FAdd(a.sim_seconds, b.sim_seconds)
        sim_insts         == FAdd(a.sim_insts, b.sim_insts)
        num_cycles        == FAdd(a.num_cycles, b.num_cycles)
        l1i_accesses      == FAdd(a.l1i_accesses, b.l1i_accesses)
        l1i_misses        == FAdd(a.l1i_misses, b.l1i_misses)
        l1d_accesses      == FAdd(a.l1d_accesses, b.l1d_accesses)
        l1d_misses        == FAdd(a.l1d_misses, b.l1d_misses)
        l2_accesses       == FAdd(a.l2_accesses, b.l2_accesses)
        l2_misses         == FAdd(a.l2_misses, b.l2_misses)
        bp_cond_pred      == FAdd(a.bp_cond_pred, b.bp_cond_pred)
        bp_cond_incorrect == FAdd(a.bp_cond_incorrect, b.bp_cond_incorrect)
    IN  [sim_seconds       |-> sim_seconds,
         sim_insts         |-> sim_insts,
         num_cycles        |-> num_cycles,
         ipc               |-> safe_div(sim_insts, num_cycles),
         cpi               |-> safe_div(num_cycles, sim_insts),
         l1i_miss_rate     |-> safe_div(l1i_misses, l1i_accesses),
         l1d_miss_rate     |-> safe_div(l1d_misses, l1d_accesses),
         l2_miss_rate      |-> safe_div(l2_misses, l2_accesses),
         l1i_accesses      |-> l1i_accesses,
         l1i_misses        |-> l1i_misses,
         l1d_accesses      |-> l1d_accesses,
         l1d_misses        |-> l1d_misses,
         l2_accesses       |-> l2_accesses,
         l2_misses         |-> l2_misses,
         bp_cond_pred      |-> bp_cond_pred,
         bp_cond_incorrect |-> bp_cond_incorrect]

\* l1_size_to_int_kb: [int |-> the size] of a label (\d+)kB, ValueError otherwise
l1_size_to_int_kb(label) ==
    LET e == SpanIn(label, 1, Digits)
    IN  IF e > 1 /\ Slice(label, e, Len(label)) = "kB"
        THEN [int |-> int(SubSeq(label, 1, e - 1))]
        ELSE [exc |-> "ValueError"]

(***************************************************************************)
(* Exit cause                                                              *)
(***************************************************************************)

\* the end of the body of the loop with the first match kept
ExitLineStore_KeepFirst(cause, m) ==
    IF m.matched /\ cause = "" THEN strip(m.cause) ELSE cause

\* the end of the body of the loop of read_exit_cause, m the match of the line
ExitLineStore(cause, m) == IF m.matched THEN strip(m.cause) ELSE cause

\* one pass of the body of the loop of read_exit_cause and tail_exit_cause
ExitLineStep(cause, line) == ExitLineStore(cause, EXIT_LINE_RE(strip(line)))

RECURSIVE ExitLines(_, _)
\* the loop of read_exit_cause and tail_exit_cause over the lines left
ExitLines(cause, lines) ==
    IF lines = <<>> THEN cause
    ELSE ExitLines(ExitLineStep(cause, Head(lines)), Tail(lines))

\* read_exit_cause from the point where it has simout_path
ReadExitCauseAt(simout_path) ==
    IF ~simout_path.exists THEN "" ELSE ExitLines("", splitlines(simout_path.text))

\* tail_exit_cause of the estimator: EXIT_RE is EXIT_LINE_RE with its group unnamed
tail_exit_cause(simout) ==
    IF ~simout.exists THEN "" ELSE ExitLines("", splitlines(simout.text))

\* is_complete_exit that looks for the phrases in the cause as written
is_complete_exit_CaseSensitive(cause) ==
    IF cause = "" THEN FALSE
    ELSE IF Contains(cause, "max instruction count") THEN FALSE
    ELSE IF Contains(cause, "user interrupt") THEN FALSE
    ELSE TRUE

is_complete_exit(cause) ==
    IF cause = "" THEN FALSE
    ELSE LET lowered == lower(cause)
         IN  IF Contains(lowered, "max instruction count") THEN FALSE
             ELSE IF Contains(lowered, "user interrupt") THEN FALSE
             ELSE TRUE

(***************************************************************************)
(* The dicts of main() whose iteration order is observed                   *)
(***************************************************************************)

DictHas(d, k) == \E i \in DOMAIN d : d[i].k = k

\* d.get(k): the value at k, or None
DictGet(d, k) ==
    IF DictHas(d, k) THEN d[CHOOSE i \in DOMAIN d : d[i].k = k].v ELSE NoneVal

\* d[k] = v: a new key goes last, an old key keeps its place
DictSet(d, k, v) ==
    IF DictHas(d, k)
    THEN [i \in DOMAIN d |-> IF d[i].k = k THEN [k |-> k, v |-> v] ELSE d[i]]
    ELSE Append(d, [k |-> k, v |-> v])

(***************************************************************************)
(* main() of the report extractor                                          *)
(***************************************************************************)

l1_labels == <<"2kB", "4kB", "8kB", "16kB", "32kB">>

RunNames == <<"dijkstra", "blowfish_enc", "blowfish_dec">>

\* is_complete_exit(exit_cause.get((app, l1), ""))
CauseComplete(app, l1) ==
    is_complete_exit(IF <<app, l1>> \in DOMAIN exit_cause
                     THEN exit_cause[<<app, l1>>] ELSE "")

\* `complete` and `ok` without their case of blowfish_total: the combined text decides
CompleteOf_ByText(app, l1) == CauseComplete(app, l1)

\* the `complete` of add_row and the `ok` of best_l1
CompleteOf(app, l1) ==
    IF app = "blowfish_total"
    THEN CauseComplete("blowfish_enc", l1) /\ CauseComplete("blowfish_dec", l1)
    ELSE CauseComplete(app, l1)

\* the dict the row of add_row(app, l1, m) holds, or the exception add_row raises
add_row(app, l1, m) ==
    LET cause == IF <<app, l1>> \in DOMAIN exit_cause
                 THEN exit_cause[<<app, l1>>] ELSE ""
        kb == l1_size_to_int_kb(l1)
    IN  IF Raised(kb) THEN kb
        ELSE [app               |-> app,
              l1                |-> l1,
              l1_kb             |-> kb.int,
              complete          |-> IF CompleteOf(app, l1) THEN 1 ELSE 0,
              exit_cause        |-> cause,
              simSeconds        |-> m.sim_seconds,
              simInsts          |-> m.sim_insts,
              numCycles         |-> m.num_cycles,
              ipc               |-> m.ipc,
              cpi               |-> m.cpi,
              l1i_miss_rate     |-> m.l1i_miss_rate,
              l1d_miss_rate     |-> m.l1d_miss_rate,
              l2_miss_rate      |-> m.l2_miss_rate,
              bp_cond_miss_rate |-> safe_div(m.bp_cond_incorrect, m.bp_cond_pred)]

\* the rows `for l1, m in lookup.items(): add_row(app, l1, m)` appends
AppRows(app, lookup) == [i \in DOMAIN lookup |-> add_row(app, lookup[i].k, lookup[i].v)]

\* the sort key lambda r: (str(r["app"]), int(r["l1_kb"])) ordered by the labels' text
RowKeyLt_ByLabel(r1, r2) ==
    IF r1.app = r2.app THEN StrLt(r1.l1, r2.l1) ELSE StrLt(r1.app, r2.app)

\* key(r1) < key(r2) for the sort key lambda r: (str(r["app"]), int(r["l1_kb"]))
RowKeyLt(r1, r2) ==
    IF r1.app = r2.app THEN r1.l1_kb < r2.l1_kb ELSE StrLt(r1.app, r2.app)

\* rs, sorted, with r put in after every row whose key is not above r's
InsertRow(rs, r) ==
    LET above == {i \in DOMAIN rs : RowKeyLt(r, rs[i])}
        at == IF above = {} THEN Len(rs) + 1 ELSE SetMin(above)
    IN  SubSeq(rs, 1, at - 1) \o <<r>> \o SubSeq(rs, at, Len(rs))

RECURSIVE sorted(_)
\* sorted(rows, key=...): a stable sort
sorted(rs) ==
    IF rs = <<>> THEN <<>>
    ELSE InsertRow(sorted(SubSeq(rs, 1, Len(rs) - 1)), rs[Len(rs)])

\* the `lookup` of best_l1, series and series_bp_cond_miss
LookupOf(app) == IF app = "dijkstra" THEN dijkstra ELSE blowfish_total

RECURSIVE BestLoop_Largest(_, _, _)
\* the loop of best_l1 with the comparison turned round
BestLoop_Largest(lookup, candidates, b) ==
    IF candidates = <<>> THEN b
    ELSE LET l1 == Head(candidates)
             m == DictGet(lookup, l1)
         IN  IF m = NoneVal THEN BestLoop_Largest(lookup, Tail(candidates), b)
             ELSE IF b = NoneVal \/ FLt(b.m.num_cycles, m.num_cycles)
                  THEN BestLoop_Largest(lookup, Tail(candidates), [l1 |-> l1, m |-> m])
                  ELSE BestLoop_Largest(lookup, Tail(candidates), b)

RECURSIVE BestLoop(_, _, _)
\* the loop `for l1 in candidates` of best_l1 over the candidates left
BestLoop(lookup, candidates, b) ==
    IF candidates = <<>> THEN b
    ELSE LET l1 == Head(candidates)
             m == DictGet(lookup, l1)
         IN  IF m = NoneVal THEN BestLoop(lookup, Tail(candidates), b)
             ELSE IF b = NoneVal \/ FLt(m.num_cycles, b.m.num_cycles)
                  THEN BestLoop(lookup, Tail(candidates), [l1 |-> l1, m |-> m])
                  ELSE BestLoop(lookup, Tail(candidates), b)

\* best_l1 without the filter on the exit causes
best_l1_IgnoreComplete(app) ==
    LET lookup == LookupOf(app)
        InLookup(l1) == DictHas(lookup, l1)
        b == BestLoop(lookup, SelectSeq(l1_labels, InLookup), NoneVal)
    IN  IF b = NoneVal THEN [exc |-> "RuntimeError"] ELSE b

\* best_l1 without the fall-back to every configuration with data
best_l1_NoFallback(app) ==
    LET lookup == LookupOf(app)
        Ok(l1) == DictHas(lookup, l1) /\ CompleteOf(app, l1)
        b == BestLoop(lookup, SelectSeq(l1_labels, Ok), NoneVal)
    IN  IF b = NoneVal THEN [exc |-> "RuntimeError"] ELSE b

\* best_l1(app): [l1, m], or the exception it raises
best_l1(app) ==
    LET lookup == LookupOf(app)
        InLookup(l1) == DictHas(lookup, l1)
        Ok(l1) == DictHas(lookup, l1) /\ CompleteOf(app, l1)
        complete == SelectSeq(l1_labels, Ok)
        candidates == IF complete = <<>> THEN SelectSeq(l1_labels, InLookup)
                      ELSE complete
        b == BestLoop(lookup, candidates, NoneVal)
    IN  IF b = NoneVal THEN [exc |-> "RuntimeError"] ELSE b

\* series(app, metric)
series(app, metric) ==
    [i \in DOMAIN l1_labels |->
        LET m == DictGet(LookupOf(app), l1_labels[i])
        IN  IF m = NoneVal THEN NaN ELSE m[metric]]

\* the list series_bp_cond_miss builds over its lookup
SeriesBpOver(lookup) ==
    [i \in DOMAIN l1_labels |->
        LET m == DictGet(lookup, l1_labels[i])
        IN  IF m = NoneVal THEN NaN ELSE safe_div(m.bp_cond_incorrect, m.bp_cond_pred)]

\* series_bp_cond_miss(app)
series_bp_cond_miss(app) == SeriesBpOver(LookupOf(app))

(***************************************************************************)
(* The run directories main() can find under --base                        *)
(***************************************************************************)

StatsComplete ==
    "---------- Begin Simulation Statistics ----------\n"
    \o "simSeconds 0.5 # Number of seconds simulated (Second)\n"
    \o "simInsts 50\n"
    \o "system.cpu.numCycles 100 # Number of cpu cycles simulated (Cycle)\n"
    \o "system.cpu.ipc 0.5\n"
    \o "system.cpu.dcache.overallAccesses::total 40\n"
    \o "system.cpu.dcache.overallMisses::total 4\n"
    \o "system.cpu.branchPred.condPredicted 10\n"
    \o "system.cpu.branchPred.condIncorrect 1\n"
    \o "\n"
    \o "---------- End Simulation Statistics   ----------\n"

StatsCapped ==
    "simInsts 20\n"
    \o "system.cpu.numCycles 30\n"
    \o "system.cpu.dcache.overallAccesses::total 0\n"
    \o "system.cpu.dcache.overallMisses::total 0\n"
    \o "system.cpu.branchPred.condIncorrect 2\n"

\* a report with no numCycles line and a value the pattern does not take
StatsPartial ==
    "simInsts 70\n"
    \o "system.cpu.ipc nan\n"
    \o "system.cpu.branchPred.condPredicted 0\n"
    \o "system.cpu.branchPred.condIncorrect 0\n"

\* a report without one line the pattern takes
StatsNoLines ==
    "---------- Begin Simulation Statistics ----------\n"
    \o "system.cpu.ipc nan # IPC: instructions per cycle\n"
    \o "system.cpu.numCycles\n"

SimoutComplete ==
    "gem5 Simulator System.\n"
    \o "Exiting @ tick 5 because a thread reached the max instruction count\n"
    \o "Exiting @ tick 90 because exiting with last active thread context\n"

SimoutCapped ==
    "gem5 Simulator System.\n"
    \o "Exiting @ tick 30 because a thread reached the max instruction count\n"

SimoutInterrupted ==
    "  Exiting @ tick 7 because User Interrupt \n"
    \o "done\n"

SimoutNoExit == "gem5 Simulator System.\n"

RunDir(stats, simout) == [stats |-> stats, simout |-> simout]

DirMissing == RunDir(Missing, Missing)

DirComplete == RunDir(File(StatsComplete), File(SimoutComplete))

DirCapped == RunDir(File(StatsCapped), File(SimoutCapped))

DirPartial == RunDir(File(StatsPartial), File(SimoutComplete))

DirNoLines == RunDir(File(StatsNoLines), File(SimoutNoExit))

DirEmpty == RunDir(File(""), File(""))

DirNoSimout == RunDir(File(StatsComplete), Missing)

DirInterrupted == RunDir(File(StatsCapped), File(SimoutInterrupted))

\* a run directory with its console log and no stats.txt
DirNoStats == RunDir(Missing, File(SimoutComplete))

DirOf ==
    [missing     |-> DirMissing,
     complete    |-> DirComplete,
     capped      |-> DirCapped,
     partial     |-> DirPartial,
     nolines     |-> DirNoLines,
     empty       |-> DirEmpty,
     nosimout    |-> DirNoSimout,
     interrupted |-> DirInterrupted,
     nostats     |-> DirNoStats]

\* the most run directories that exist under --base; the others are missing
MaxDirs == 3

\* the directories the model lets run `run_name` of size `l1` be: the sizes differ
\* in what a directory that exists holds
RunDirs(l1, run_name) ==
    {"missing"} \cup
    CASE l1 = "2kB"  -> {"complete"}
      [] l1 = "4kB"  -> {"empty", "partial"}
      [] l1 = "8kB"  -> {"nolines", "nosimout"}
      [] l1 = "16kB" -> {"complete", "capped"}
      [] OTHER       -> {"interrupted", "nostats"}

\* the number of run directories of the tree `base` that exist
DirCount(base) ==
    Cardinality({p \in (DOMAIN base) \X {"dijkstra", "blowfish_enc", "blowfish_dec"} :
                    base[p[1]][p[2]] # "missing"})

\* parse_stats_file over the stats files of the model, evaluated once
ParsedStats ==
    [k \in DOMAIN DirOf |-> parse_stats_file(DirOf[k].stats)]

\* the loop of read_exit_cause over the console logs of the model, evaluated once
ParsedSimout ==
    [k \in DOMAIN DirOf |-> ReadExitCauseAt(DirOf[k].simout)]

\* find_run without `if not stats: return None`
MetricsOrNone_NeverNone(stats) == extract_metrics(stats)

\* the end of find_run
MetricsOrNone(stats) == IF stats = EmptyDict THEN NoneVal ELSE extract_metrics(stats)

\* find_run: base is the directory tree, base[l1][run_name] names a run's directory
find_run(base, l1, run_name) == MetricsOrNone(ParsedStats[base[l1][run_name]])

\* read_exit_cause
read_exit_cause(base, l1, run_name) == ParsedSimout[base[l1][run_name]]

(***************************************************************************)
(* The steps of main()                                                     *)
(***************************************************************************)

Init ==
    /\ pc = "start"
    /\ fs = <<>>
    /\ dijkstra = <<>>
    /\ blowfish_enc = <<>>
    /\ blowfish_dec = <<>>
    /\ blowfish_total = <<>>
    /\ exit_cause = <<>>
    /\ rows = <<>>
    /\ out = <<>>
    /\ best = <<>>
    /\ err = NoneVal
    /\ call = NoneVal

\* main() ends with the exception e
Raise(e) == pc' = "error" /\ err' = e

\* x_kb = [l1_size_to_int_kb(x) for x in l1_labels] and the empty collections
Start ==
    /\ pc = "start"
    /\ LET x_kb == [i \in DOMAIN l1_labels |-> l1_size_to_int_kb(l1_labels[i])]
           bad == {i \in DOMAIN x_kb : Raised(x_kb[i])}
       IN  IF bad = {} THEN pc' = "read" /\ err' = err
           ELSE Raise(x_kb[SetMin(bad)])
    /\ UNCHANGED <<fs, dijkstra, blowfish_enc, blowfish_dec, blowfish_total,
                   exit_cause, rows, out, best, call>>

\* the body of `for l1 in l1_labels` after its three find_run (d, e, de) and its
\* three read_exit_cause (cd, ec, dc)
LabelStore(l1, d, e, de, cd, ec, dc) ==
    /\ dijkstra' = IF d # NoneVal THEN DictSet(dijkstra, l1, d) ELSE dijkstra
    /\ blowfish_enc' = IF e # NoneVal THEN DictSet(blowfish_enc, l1, e)
                       ELSE blowfish_enc
    /\ blowfish_dec' = IF de # NoneVal THEN DictSet(blowfish_dec, l1, de)
                       ELSE blowfish_dec
    /\ blowfish_total' =
           IF e # NoneVal /\ de # NoneVal
           THEN DictSet(blowfish_total, l1, sum_runs(e, de))
           ELSE blowfish_total
    /\ exit_cause' =
           (IF e # NoneVal /\ de # NoneVal
            THEN <<"blowfish_total", l1>> :> strip("enc: " \o ec \o " | dec: " \o dc)
            ELSE <<>>)
           @@ (<<"dijkstra", l1>> :> cd)
           @@ (<<"blowfish_enc", l1>> :> ec)
           @@ (<<"blowfish_dec", l1>> :> dc)
           @@ exit_cause

\* the body of `for l1 in l1_labels` under the directory tree `base`
LabelPass(l1, base) ==
    LabelStore(l1,
               find_run(base, l1, "dijkstra"),
               find_run(base, l1, "blowfish_enc"),
               find_run(base, l1, "blowfish_dec"),
               read_exit_cause(base, l1, "dijkstra"),
               read_exit_cause(base, l1, "blowfish_enc"),
               read_exit_cause(base, l1, "blowfish_dec"))

\* the run directories of size l1 added to the tree read so far
WithLabel(l1, dd, ed, dde) ==
    fs @@ (l1 :> [dijkstra |-> dd, blowfish_enc |-> ed, blowfish_dec |-> dde])

\* one pass of `for l1 in l1_labels`, over the run directories it finds
ReadLabel ==
    /\ pc = "read"
    /\ \E dd \in RunDirs(l1_labels[Cardinality(DOMAIN fs) + 1], "dijkstra"),
          ed \in RunDirs(l1_labels[Cardinality(DOMAIN fs) + 1], "blowfish_enc"),
          dde \in RunDirs(l1_labels[Cardinality(DOMAIN fs) + 1], "blowfish_dec") :
         /\ fs' = WithLabel(l1_labels[Cardinality(DOMAIN fs) + 1], dd, ed, dde)
         /\ DirCount(fs') <= MaxDirs
         /\ LabelPass(l1_labels[Cardinality(DOMAIN fs) + 1], fs')
    /\ pc' = IF Cardinality(DOMAIN fs') = Len(l1_labels) THEN "rows" ELSE "read"
    /\ UNCHANGED <<rows, out, best, err, call>>

\* the four loops that call add_row
CollectRows ==
    /\ pc = "rows"
    /\ LET new == AppRows("dijkstra", dijkstra)
                  \o AppRows("blowfish_total", blowfish_total)
                  \o AppRows("blowfish_enc", blowfish_enc)
                  \o AppRows("blowfish_dec", blowfish_dec)
           bad == {i \in DOMAIN new : Raised(new[i])}
       IN  IF bad = {}
           THEN rows' = rows \o new /\ pc' = "csv" /\ err' = err
           ELSE rows' = rows \o SubSeq(new, 1, SetMin(bad) - 1) /\ Raise(new[SetMin(bad)])
    /\ UNCHANGED <<fs, dijkstra, blowfish_enc, blowfish_dec, blowfish_total,
                   exit_cause, out, best, call>>

CsvHeader ==
    <<"app", "l1", "l1_kb", "complete", "exit_cause", "simSeconds", "simInsts",
      "numCycles", "ipc", "cpi", "l1i_miss_rate", "l1d_miss_rate", "l2_miss_rate",
      "bp_cond_miss_rate">>

\* the CSV file is written: the header, then the rows, sorted
WriteCsv ==
    /\ pc = "csv"
    /\ out' = Append(out, [file |-> "csv", header |-> CsvHeader, rows |-> sorted(rows)])
    /\ pc' = "best_d"
    /\ UNCHANGED <<fs, dijkstra, blowfish_enc, blowfish_dec, blowfish_total,
                   exit_cause, rows, best, err, call>>

\* best_d_l1, best_d = best_l1("dijkstra")
BestD ==
    /\ pc = "best_d"
    /\ LET b == best_l1("dijkstra")
       IN  IF Raised(b) THEN Raise(b) /\ best' = best
           ELSE pc' = "best_b" /\ err' = err /\ best' = ("dijkstra" :> b) @@ best
    /\ UNCHANGED <<fs, dijkstra, blowfish_enc, blowfish_dec, blowfish_total,
                   exit_cause, rows, out, call>>

\* the second call of best_l1 with its exception caught and the plots still drawn
BestB_KeepGoing ==
    /\ pc = "best_b"
    /\ LET b == best_l1("blowfish_total")
       IN  IF Raised(b) THEN pc' = "plots" /\ err' = err /\ best' = best
           ELSE pc' = "tex" /\ err' = err /\ best' = ("blowfish_total" :> b) @@ best
    /\ UNCHANGED <<fs, dijkstra, blowfish_enc, blowfish_dec, blowfish_total,
                   exit_cause, rows, out, call>>

\* best_b_l1, best_b = best_l1("blowfish_total")
BestB ==
    /\ pc = "best_b"
    /\ LET b == best_l1("blowfish_total")
       IN  IF Raised(b) THEN Raise(b) /\ best' = best
           ELSE pc' = "tex" /\ err' = err /\ best' = ("blowfish_total" :> b) @@ best
    /\ UNCHANGED <<fs, dijkstra, blowfish_enc, blowfish_dec, blowfish_total,
                   exit_cause, rows, out, call>>

\* one line of the LaTeX table: the values formatted into it
TexLine(title, b) ==
    [title |-> title, l1_kb |-> l1_size_to_int_kb(b.l1), cycles |-> b.m.num_cycles,
     ipc |-> b.m.ipc, l1i_miss_rate |-> b.m.l1i_miss_rate,
     l1d_miss_rate |-> b.m.l1d_miss_rate]

\* the LaTeX fragment is written
WriteTex ==
    /\ pc = "tex"
    /\ LET lines == <<TexLine("Dijkstra", best["dijkstra"]),
                      TexLine("Blowfish (enc+dec)", best["blowfish_total"])>>
           bad == {i \in DOMAIN lines : Raised(lines[i].l1_kb)}
       IN  IF bad = {}
           THEN out' = Append(out, [file |-> "tex", lines |-> lines])
                /\ pc' = "plots" /\ err' = err
           ELSE out' = Append(out, [file |-> "tex",
                                    lines |-> SubSeq(lines, 1, SetMin(bad) - 1)])
                /\ Raise(lines[SetMin(bad)].l1_kb)
    /\ UNCHANGED <<fs, dijkstra, blowfish_enc, blowfish_dec, blowfish_total,
                   exit_cause, rows, best, call>>

Plot(name, y) == [file |-> name, y |-> y]

\* the twelve calls of plot_series
WritePlots ==
    /\ pc = "plots"
    /\ out' = out \o
         <<Plot("a15_dijkstra_cycles.png", series("dijkstra", "num_cycles")),
           Plot("a15_dijkstra_ipc.png", series("dijkstra", "ipc")),
           Plot("a15_dijkstra_dl1_miss.png", series("dijkstra", "l1d_miss_rate")),
           Plot("a15_dijkstra_il1_miss.png", series("dijkstra", "l1i_miss_rate")),
           Plot("a15_dijkstra_l2_miss.png", series("dijkstra", "l2_miss_rate")),
           Plot("a15_dijkstra_bp_mispred.png", series_bp_cond_miss("dijkstra")),
           Plot("a15_blowfish_cycles.png", series("blowfish_total", "num_cycles")),
           Plot("a15_blowfish_ipc.png", series("blowfish_total", "ipc")),
           Plot("a15_blowfish_dl1_miss.png", series("blowfish_total", "l1d_miss_rate")),
           Plot("a15_blowfish_il1_miss.png", series("blowfish_total", "l1i_miss_rate")),
           Plot("a15_blowfish_l2_miss.png", series("blowfish_total", "l2_miss_rate")),
           Plot("a15_blowfish_bp_mispred.png", series_bp_cond_miss("blowfish_total"))>>
    /\ pc' = "done"
    /\ UNCHANGED <<fs, dijkstra, blowfish_enc, blowfish_dec, blowfish_total,
                   exit_cause, rows, best, err, call>>

Next ==
    \/ Start
    \/ ReadLabel
    \/ CollectRows
    \/ WriteCsv
    \/ BestD
    \/ BestB
    \/ WriteTex
    \/ WritePlots

Spec == Init /\ [][Next]_vars

(***************************************************************************)
(* Best-configuration selection over any collections: main() from the      *)
(* point where it has read its files and written the CSV, with the dicts   *)
(* of one application drawn from every content up to MaxData sizes with    *)
(* data, any num_cycles and any exit cause; the other application has one  *)
(* complete run.  The directory tree behind the dicts is left out.         *)
(***************************************************************************)

\* the most sizes of the sweep that have data for the application drawn
MaxData == 2

\* the num_cycles a record is drawn with: absent from the report, or a count
CycleValues == {NaN, Flt(100), Flt(300)}

CauseDone == "target called exit()"

CauseMaxInsts == "a thread reached the max instruction count"

\* the causes a run is drawn with: no exit line, a natural end, a capped run
CauseValues == {"", CauseDone, CauseMaxInsts}

\* the record extract_metrics gives for a report with simInsts and, unless cycles
\* is not-a-number, numCycles
MetricsOf(cycles) ==
    extract_metrics(IF isnan(cycles) THEN ("simInsts" :> Flt(50))
                    ELSE ("simInsts" :> Flt(50)) @@ ("system.cpu.numCycles" :> cycles))

LabelSet == {l1_labels[i] : i \in DOMAIN l1_labels}

\* the dict with the sizes of `present`, in the order of l1_labels, value[l1] at l1
DictOver(present, value) ==
    LET Has(l1) == l1 \in present
        keys == SelectSeq(l1_labels, Has)
    IN  [i \in DOMAIN keys |-> [k |-> keys[i], v |-> value[keys[i]]]]

\* the collections of main() when dijkstra has data for `present`
DijkstraDrawn(present, cyc, cause) ==
    LET one == [l1 \in LabelSet |-> MetricsOf(Flt(100))]
        mine == [l1 \in present |-> MetricsOf(cyc[l1])]
        both == [l1 \in LabelSet |-> sum_runs(one[l1], one[l1])]
    IN  /\ dijkstra = DictOver(present, mine)
        /\ blowfish_enc = DictOver({"2kB"}, one)
        /\ blowfish_dec = DictOver({"2kB"}, one)
        /\ blowfish_total = DictOver({"2kB"}, both)
        /\ exit_cause =
             [p \in {"dijkstra", "blowfish_enc", "blowfish_dec"} \X LabelSet |->
                 IF p[1] = "dijkstra" /\ p[2] \in present THEN cause[p[2]]
                 ELSE CauseDone]
             @@ (<<"blowfish_total", "2kB">> :>
                     ("enc: " \o CauseDone \o " | dec: " \o CauseDone))

\* the collections of main() when blowfish_enc and blowfish_dec have data for
\* `present`; a cause drawn "" stands for a decryption run whose simout has no
\* exit line, a capped cause for a capped encryption run
BlowfishDrawn(present, cyc, cause) ==
    LET one == [l1 \in LabelSet |-> MetricsOf(Flt(100))]
        enc == [l1 \in present |-> MetricsOf(cyc[l1])]
        both == [l1 \in present |-> sum_runs(enc[l1], one[l1])]
        ecause(l1) == IF cause[l1] = CauseMaxInsts THEN CauseMaxInsts ELSE CauseDone
        dcause(l1) == IF cause[l1] = "" THEN "" ELSE CauseDone
    IN  /\ dijkstra = DictOver({"2kB"}, one)
        /\ blowfish_enc = DictOver(present, enc)
        /\ blowfish_dec = DictOver(present, one)
        /\ blowfish_total = DictOver(present, both)
        /\ exit_cause =
             [p \in {"dijkstra", "blowfish_enc", "blowfish_dec"} \X LabelSet |->
                 IF p[2] \notin present \/ p[1] = "dijkstra" THEN CauseDone
                 ELSE IF p[1] = "blowfish_enc" THEN ecause(p[2]) ELSE dcause(p[2])]
             @@ [p \in {"blowfish_total"} \X present |->
                     strip("enc: " \o ecause(p[2]) \o " | dec: " \o dcause(p[2]))]

InitBest ==
    /\ \E present \in SUBSET LabelSet :
         /\ Cardinality(present) <= MaxData
         /\ \E cyc \in [present -> CycleValues], cause \in [present -> CauseValues] :
              \/ DijkstraDrawn(present, cyc, cause)
              \/ BlowfishDrawn(present, cyc, cause)
    /\ pc = "best_d"
    /\ fs = <<>>
    /\ rows = AppRows("dijkstra", dijkstra)
              \o AppRows("blowfish_total", blowfish_total)
              \o AppRows("blowfish_enc", blowfish_enc)
              \o AppRows("blowfish_dec", blowfish_dec)
    /\ out = <<[file |-> "csv", header |-> CsvHeader, rows |-> sorted(rows)]>>
    /\ best = <<>>
    /\ err = NoneVal
    /\ call = NoneVal

NextBest ==
    \/ BestD
    \/ BestB

SpecBest == InitBest /\ [][NextBest]_vars

(***************************************************************************)
(* Best-configuration selection: properties of SpecBest                    *)
(***************************************************************************)

\* the sizes with data for app
WithData(app) == {LookupOf(app)[i].k : i \in DOMAIN LookupOf(app)}

\* the candidate set of the contract: the complete sizes with data if there
\* are any, every size with data otherwise
CandidateSet(app) ==
    LET complete == {l1 \in WithData(app) : CompleteOf(app, l1)}
    IN  IF complete = {} THEN WithData(app) ELSE complete

\* C1: whenever some configuration with data is marked complete, the
\* configuration best_l1 returned is one with data that is marked complete,
\* whatever the cycle counts of the incomplete ones.
BestPrefersComplete ==
    \A app \in DOMAIN best :
        (\E l1 \in WithData(app) : CompleteOf(app, l1))
            => /\ best[app].l1 \in WithData(app)
               /\ CompleteOf(app, best[app].l1)

\* best_l1 has returned a complete configuration although an incomplete one has
\* a strictly lower cycle count
CompleteChosenOverFaster ==
    \E app \in DOMAIN best :
        /\ CompleteOf(app, best[app].l1)
        /\ \E l1 \in WithData(app) :
              /\ ~CompleteOf(app, l1)
              /\ FLt(DictGet(LookupOf(app), l1).num_cycles, best[app].m.num_cycles)

HasData(l1, run_name) ==
    l1 \in DOMAIN fs /\ ParsedStats[fs[l1][run_name]] # EmptyDict

\* some size of the sweep has data for dijkstra
DijkstraHasData == \E l1 \in LabelSet : HasData(l1, "dijkstra")

\* some size of the sweep has data for both runs of blowfish
BlowfishTotalHasData ==
    \E l1 \in LabelSet : HasData(l1, "blowfish_enc") /\ HasData(l1, "blowfish_dec")

\* C3: main() ends in an exception only when dijkstra or blowfish_total has
\* no size with data among the five, and then in the RuntimeError of best_l1;
\* it ends without one only when both have data, so with data for both no
\* exception is raised whatever files are missing, empty or partial.  Until it
\* ends it is at one of its steps, and the read loop always has a next pass.
OnlyMissingDataIsFatal ==
    /\ pc \in {"start", "read", "rows", "csv", "best_d", "best_b", "tex", "plots",
               "done", "error"}
    /\ pc = "read" => ENABLED ReadLabel
    /\ pc = "error" => /\ DOMAIN fs = LabelSet
                       /\ ~(DijkstraHasData /\ BlowfishTotalHasData)
                       /\ err = [exc |-> "RuntimeError"]
    /\ pc = "done" => /\ DOMAIN fs = LabelSet
                      /\ DijkstraHasData /\ BlowfishTotalHasData
                      /\ err = NoneVal

\* main() has ended in the exception although dijkstra and the encryption run
\* have data: no size has data for both runs of blowfish
FatalWithoutBlowfishTotal ==
    /\ pc = "error"
    /\ DijkstraHasData
    /\ \E l1 \in LabelSet : HasData(l1, "blowfish_enc")

\* C9 as stated: an output is written only after every file is read and both
\* best configurations are selected, so an invocation that fails has written
\* nothing.
NoOutputBeforeLastFailurePoint ==
    /\ out # <<>> => /\ DOMAIN fs = LabelSet
                     /\ DOMAIN best = {"dijkstra", "blowfish_total"}
    /\ pc = "error" => out = <<>>

\* C9, amended: the first output is the CSV, written after every file is read
\* and every row computed but before the best configurations are selected;
\* the LaTeX fragment and the plots are written only after both selections,
\* so an invocation that fails has written the CSV and nothing else.
OnlyCsvBeforeSelection ==
    /\ out # <<>> => /\ DOMAIN fs = LabelSet
                     /\ pc \notin {"start", "read", "rows", "csv"}
                     /\ out[1].file = "csv"
                     /\ out[1].rows = sorted(rows)
    /\ Len(out) > 1 => DOMAIN best = {"dijkstra", "blowfish_total"}
    /\ \A i \in DOMAIN out : i > 1 => out[i].file # "csv"
    /\ pc = "error" => Len(out) = 1

\* main() has failed in best_l1 after it wrote the CSV with rows in it
FailedAfterCsv ==
    /\ pc = "error"
    /\ Len(out) = 1
    /\ out[1].file = "csv"
    /\ out[1].rows # <<>>

\* the place of an application name in the order of str
AppRank ==
    [blowfish_dec |-> 1, blowfish_enc |-> 2, blowfish_total |-> 3, dijkstra |-> 4]

\* the size a label of the sweep stands for
KbOf == ("2kB" :> 2) @@ ("4kB" :> 4) @@ ("8kB" :> 8) @@ ("16kB" :> 16) @@ ("32kB" :> 32)

\* C10: the CSV holds the rows collected, each once, ordered by application
\* name and, within an application, by the size in kB as a number.
CsvRowsSorted ==
    \A i \in DOMAIN out :
        out[i].file = "csv" =>
            LET rs == out[i].rows
            IN  /\ Len(rs) = Len(rows)
                /\ {rs[a] : a \in DOMAIN rs} = {rows[a] : a \in DOMAIN rows}
                /\ \A a \in DOMAIN rs : rs[a].l1_kb = KbOf[rs[a].l1]
                /\ \A a, b \in DOMAIN rs :
                      a < b => \/ AppRank[rs[a].app] < AppRank[rs[b].app]
                               \/ /\ rs[a].app = rs[b].app
                                  /\ KbOf[rs[a].l1] < KbOf[rs[b].l1]

\* a CSV is written whose rows were collected in another order and where 2kB
\* comes before 16kB for an application, against the order of the labels' text
CsvWith2Before16 ==
    /\ out # <<>>
    /\ out[1].rows # rows
    /\ \E a, b \in DOMAIN out[1].rows :
          /\ a < b
          /\ out[1].rows[a].app = out[1].rows[b].app
          /\ out[1].rows[a].l1 = "2kB"
          /\ out[1].rows[b].l1 = "16kB"

(***************************************************************************)
(* The functions of the two scripts called on their own: `call` holds the  *)
(* last call, its arguments and what it returned; main() is not running.   *)
(***************************************************************************)

\* the most lines of a report or of a console log a call is made on
MaxLines == 3

\* the floats safe_div is called on
FloatValues == {NaN, Flt(0), Flt(1), Flt(-3), Rat(1, 2), Flt(150), Flt(300)}

\* the counters of a report and the value each has in a run of weight 1
CounterScale ==
    ("simSeconds" :> 1) @@ ("simInsts" :> 50) @@ ("system.cpu.numCycles" :> 100)
    @@ ("system.cpu.icache.overallAccesses::total" :> 11)
    @@ ("system.cpu.icache.overallMisses::total" :> 3)
    @@ ("system.cpu.dcache.overallAccesses::total" :> 13)
    @@ ("system.cpu.dcache.overallMisses::total" :> 5)
    @@ ("system.l2cache.overallAccesses::total" :> 17)
    @@ ("system.l2cache.overallMisses::total" :> 7)
    @@ ("system.cpu.branchPred.condPredicted" :> 19)
    @@ ("system.cpu.branchPred.condIncorrect" :> 2)

\* the rates gem5 reports itself
RateNames ==
    {"system.cpu.ipc", "system.cpu.cpi", "system.cpu.icache.overallMissRate::total",
     "system.cpu.dcache.overallMissRate::total", "system.l2cache.overallMissRate::total"}

\* what a report lacks: no counter, one counter absent, or one counter at zero
Gaps ==
    {[absent |-> {}, zero |-> {}]}
    \cup {[absent |-> {name}, zero |-> {}] : name \in DOMAIN CounterScale}
    \cup {[absent |-> {}, zero |-> {name}] : name \in DOMAIN CounterScale}

\* the rates a report is drawn with: none, or all 9 (no ratio of its counters)
RateValues == {NaN, Flt(9)}

\* the stat mapping of a report of weight `weight` with the gap and the rates given
ReportOf(weight, gap, rate) ==
    [name \in (DOMAIN CounterScale) \ gap.absent |->
        IF name \in gap.zero THEN Flt(0) ELSE Flt(CounterScale[name] * weight)]
    @@ [name \in (IF isnan(rate) THEN {} ELSE RateNames) |-> rate]

\* the records of the runs sum_runs gets as a
RunsA == {extract_metrics(ReportOf(1, gap, rate)) : gap \in Gaps, rate \in RateValues}

\* the records of the runs sum_runs gets as b
RunsB == {extract_metrics(ReportOf(2, gap, rate)) : gap \in Gaps, rate \in RateValues}

\* the exit causes is_complete_exit is called on
CauseSamples ==
    {before \o core \o after :
        before \in {"", "a thread reached the "},
        core \in {"", "max instruction count", "Max Instruction Count",
                  "MAX INSTRUCTION COUNT", "user interrupt", "User Interrupt",
                  "max instruction", "user  interrupt", "maxinstructioncount",
                  "interrupt by user", "exiting with last active thread context"},
        after \in {"", " ", " received"}}

\* the lines a console log is made of
LogLines ==
    {"Exiting @ tick 5 because a thread reached the max instruction count",
     "Exiting @ tick 90 because exiting with last active thread context",
     "  Exiting @ tick 7 because  user interrupt  ",
     "Exiting @ tick 12 because ",
     "Exiting @ tick x because y",
     "info: Exiting @ tick 3 because z",
     ""}

\* the lines a report is made of
ReportLines ==
    {"a 1", "a 2", "  b 2.5e1 # c ", "a nan", "c 1 2", "# c 3",
     "---------- Begin Simulation Statistics ----------", "-x 5", ""}

\* the sequences of at most MaxLines lines out of S
LinesOver(S) == UNION {[1..n -> S] : n \in 0..MaxLines}

RECURSIVE JoinLines(_)
\* the text of a file with the lines given, each ended by a line break
JoinLines(lines) ==
    IF lines = <<>> THEN "" ELSE Head(lines) \o "\n" \o JoinLines(Tail(lines))

\* the path of a file with the lines given
FileOf(lines) == File(JoinLines(lines))

InitCalls ==
    /\ pc = "idle"
    /\ fs = <<>>
    /\ dijkstra = <<>>
    /\ blowfish_enc = <<>>
    /\ blowfish_dec = <<>>
    /\ blowfish_total = <<>>
    /\ exit_cause = <<>>
    /\ rows = <<>>
    /\ out = <<>>
    /\ best = <<>>
    /\ err = NoneVal
    /\ call = NoneVal

\* the variables of main()
mainVars ==
    <<pc, fs, dijkstra, blowfish_enc, blowfish_dec, blowfish_total, exit_cause,
      rows, out, best, err>>

\* the call fn(args) that returned ret
CallOf(fn, args, ret) == [fn |-> fn, args |-> args, ret |-> ret]

\* a file of a call: missing, or with the lines given
PathOf(f) == IF f.exists THEN FileOf(f.lines) ELSE Missing

\* the files a call is made on: missing, or any lines out of S
FilesOver(S) ==
    {[exists |-> FALSE, lines |-> <<>>]}
    \cup {[exists |-> TRUE, lines |-> lines] : lines \in LinesOver(S)}

CallSafeDiv ==
    /\ call = NoneVal
    /\ \E num \in FloatValues, den \in FloatValues :
          call' = CallOf("safe_div", <<num, den>>, safe_div(num, den))
    /\ UNCHANGED mainVars

CallSumRuns ==
    /\ call = NoneVal
    /\ \E a \in RunsA, b \in RunsB :
          call' = CallOf("sum_runs", <<a, b>>, sum_runs(a, b))
    /\ UNCHANGED mainVars

CallAddRow ==
    /\ call = NoneVal
    /\ \E app \in {"dijkstra"}, l1 \in {"2kB", "16kB"}, m \in RunsA \cup RunsB :
          call' = CallOf("add_row", <<app, l1, m>>, add_row(app, l1, m))
    /\ UNCHANGED mainVars

CallSeriesBp ==
    /\ call = NoneVal
    /\ \E l1 \in {"2kB", "32kB"}, m \in RunsA :
          call' = CallOf("series_bp_cond_miss", <<l1, m>>,
                         SeriesBpOver(<<[k |-> l1, v |-> m]>>))
    /\ UNCHANGED mainVars

CallIsCompleteExit ==
    /\ call = NoneVal
    /\ \E cause \in CauseSamples :
          call' = CallOf("is_complete_exit", <<cause>>, is_complete_exit(cause))
    /\ UNCHANGED mainVars

CallReadExitCause ==
    /\ call = NoneVal
    /\ \E f \in FilesOver(LogLines) :
          call' = CallOf("read_exit_cause", f, ReadExitCauseAt(PathOf(f)))
    /\ UNCHANGED mainVars

CallTailExitCause ==
    /\ call = NoneVal
    /\ \E f \in FilesOver(LogLines) :
          call' = CallOf("tail_exit_cause", f, tail_exit_cause(PathOf(f)))
    /\ UNCHANGED mainVars

CallParseStatsFile ==
    /\ call = NoneVal
    /\ \E f \in FilesOver(ReportLines) :
          call' = CallOf("parse_stats_file", f, parse_stats_file(PathOf(f)))
    /\ UNCHANGED mainVars

\* the caller has taken what the call returned
CallDone ==
    /\ call # NoneVal
    /\ call' = NoneVal
    /\ UNCHANGED mainVars

NextCalls ==
    \/ CallSafeDiv
    \/ CallSumRuns
    \/ CallAddRow
    \/ CallSeriesBp
    \/ CallIsCompleteExit
    \/ CallReadExitCause
    \/ CallTailExitCause
    \/ CallParseStatsFile
    \/ CallDone

SpecCalls == InitCalls /\ [][NextCalls]_vars

(***************************************************************************)
(* The functions called on their own: properties of SpecCalls              *)
(***************************************************************************)

\* x is the float p + q: not-a-number when p or q is, their sum otherwise
IsSum(x, p, q) ==
    IF isnan(p) \/ isnan(q) THEN isnan(x)
    ELSE ~isnan(x) /\ x.n * p.d * q.d = (p.n * q.d + q.n * p.d) * x.d

\* x is the zero-safe ratio of num to den: not-a-number when den is zero or an
\* operand is not-a-number, the quotient num/den otherwise
IsRatio(x, num, den) ==
    IF isnan(num) \/ isnan(den) THEN isnan(x)
    ELSE IF den.n = 0 THEN isnan(x)
    ELSE ~isnan(x) /\ x.n * den.n * num.d = num.n * x.d * den.d

\* the raw counters of a record
CounterFields ==
    {"sim_seconds", "sim_insts", "num_cycles", "l1i_accesses", "l1i_misses",
     "l1d_accesses", "l1d_misses", "l2_accesses", "l2_misses", "bp_cond_pred",
     "bp_cond_incorrect"}

\* the record m with its ratio fields blanked
WithoutRates(m) ==
    [m EXCEPT !.ipc = NaN, !.cpi = NaN, !.l1i_miss_rate = NaN,
              !.l1d_miss_rate = NaN, !.l2_miss_rate = NaN]

\* C4: sum_runs(a, b) holds in every counter the sum of the counters of a and
\* b, in every ratio field the ratio of its own summed counters, and is the
\* same whatever the ratio fields of a and b hold.
SumRunsRecomputesRates ==
    call # NoneVal /\ call.fn = "sum_runs" =>
        LET a == call.args[1]
            b == call.args[2]
            r == call.ret
        IN  /\ \A f \in CounterFields : IsSum(r[f], a[f], b[f])
            /\ IsRatio(r.ipc, r.sim_insts, r.num_cycles)
            /\ IsRatio(r.cpi, r.num_cycles, r.sim_insts)
            /\ IsRatio(r.l1i_miss_rate, r.l1i_misses, r.l1i_accesses)
            /\ IsRatio(r.l1d_miss_rate, r.l1d_misses, r.l1d_accesses)
            /\ IsRatio(r.l2_miss_rate, r.l2_misses, r.l2_accesses)
            /\ r = sum_runs(WithoutRates(a), WithoutRates(b))

\* the runs A (100 cycles, 50 instructions) and B (200, 100), each reported
\* with an ipc of 9, are summed to 300 cycles, 150 instructions and ipc 1/2
SumOfRunsAAndB ==
    /\ call # NoneVal /\ call.fn = "sum_runs"
    /\ call.args[1].num_cycles = Flt(100) /\ call.args[1].sim_insts = Flt(50)
    /\ call.args[2].num_cycles = Flt(200) /\ call.args[2].sim_insts = Flt(100)
    /\ call.args[1].ipc = Flt(9) /\ call.args[2].ipc = Flt(9)
    /\ call.ret.num_cycles = Flt(300)
    /\ call.ret.sim_insts = Flt(150)
    /\ call.ret.ipc = Rat(1, 2)

\* C5: safe_div never raises and returns the zero-safe ratio of its operands;
\* no ratio of sum_runs, no bp_cond_miss_rate of a CSV row and no
\* misprediction rate of a plot is an exception, and each is the zero-safe
\* ratio of its counters.
RatesAreZeroSafe ==
    /\ call # NoneVal /\ call.fn = "safe_div" =>
          /\ ~Raised(call.ret)
          /\ IsRatio(call.ret, call.args[1], call.args[2])
    /\ call # NoneVal /\ call.fn = "sum_runs" =>
          /\ \A f \in {"ipc", "cpi", "l1i_miss_rate", "l1d_miss_rate", "l2_miss_rate"} :
                ~Raised(call.ret[f])
          /\ call.ret.num_cycles.n = 0 => isnan(call.ret.ipc)
          /\ call.ret.sim_insts.n = 0 => isnan(call.ret.cpi)
          /\ call.ret.l1i_accesses.n = 0 => isnan(call.ret.l1i_miss_rate)
          /\ call.ret.l1d_accesses.n = 0 => isnan(call.ret.l1d_miss_rate)
          /\ call.ret.l2_accesses.n = 0 => isnan(call.ret.l2_miss_rate)
    /\ call # NoneVal /\ call.fn = "add_row" =>
          /\ ~Raised(call.ret)
          /\ ~Raised(call.ret.bp_cond_miss_rate)
          /\ IsRatio(call.ret.bp_cond_miss_rate,
                     call.args[3].bp_cond_incorrect, call.args[3].bp_cond_pred)
    /\ call # NoneVal /\ call.fn = "series_bp_cond_miss" =>
          \A i \in DOMAIN l1_labels :
              /\ ~Raised(call.ret[i])
              /\ IF l1_labels[i] = call.args[1]
                 THEN IsRatio(call.ret[i], call.args[2].bp_cond_incorrect,
                              call.args[2].bp_cond_pred)
                 ELSE isnan(call.ret[i])

\* safe_div has returned not-a-number for a number divided by zero
DividedByZero ==
    /\ call # NoneVal /\ call.fn = "safe_div"
    /\ ~isnan(call.args[1]) /\ call.args[1].n # 0
    /\ ~isnan(call.args[2]) /\ call.args[2].n = 0
    /\ isnan(call.ret)

\* the phrase (in lower case) is in the cause, in any letter case
HasPhrase(cause, phrase) ==
    \E at \in 0..(Len(cause) - Len(phrase)) :
        \A j \in 1..Len(phrase) :
            \/ Ch(cause, at + j) = Ch(phrase, j)
            \/ /\ Ch(cause, at + j) \in DOMAIN LowerTable
               /\ LowerTable[Ch(cause, at + j)] = Ch(phrase, j)

\* C6: is_complete_exit(cause) is false for the empty cause and for a cause
\* with "max instruction count" or "user interrupt" in it in any letter case,
\* true for every other cause.
ExitCauseClassified ==
    call # NoneVal /\ call.fn = "is_complete_exit" =>
        call.ret = (/\ call.args[1] # ""
                    /\ ~HasPhrase(call.args[1], "max instruction count")
                    /\ ~HasPhrase(call.args[1], "user interrupt"))

\* a cause with one of the phrases written with capitals is classified incomplete
CapitalisedPhraseIncomplete ==
    /\ call # NoneVal /\ call.fn = "is_complete_exit"
    /\ ~Contains(call.args[1], "max instruction count")
    /\ HasPhrase(call.args[1], "max instruction count")
    /\ call.ret = FALSE

\* the indexes of the lines of a console log that are exit lines
ExitLinesOf(lines) == {i \in DOMAIN lines : EXIT_LINE_RE(strip(lines[i])).matched}

\* the cause the exit line `line` gives
CauseOfLine(line) == strip(EXIT_LINE_RE(strip(line)).cause)

\* C7: read_exit_cause and tail_exit_cause return the cause of the last exit
\* line of the log, whatever lines come before or after it, and the empty
\* cause, which is_complete_exit takes as not complete, for a log without an
\* exit line or a log that is missing.  A line is an exit line when, stripped
\* of the blanks around it, it matches the pattern.
LastExitLineWins ==
    call # NoneVal /\ call.fn \in {"read_exit_cause", "tail_exit_cause"} =>
        LET lines == call.args.lines
        IN  IF ~call.args.exists \/ ExitLinesOf(lines) = {}
            THEN call.ret = "" /\ ~is_complete_exit(call.ret)
            ELSE call.ret = CauseOfLine(lines[SetMax(ExitLinesOf(lines))])

\* read_exit_cause has returned the cause of the second of two exit lines with
\* different causes, and a line that is no exit line ends the log
SecondExitLineReturned ==
    /\ call # NoneVal /\ call.fn = "read_exit_cause"
    /\ Cardinality(ExitLinesOf(call.args.lines)) = 2
    /\ Len(call.args.lines) \notin ExitLinesOf(call.args.lines)
    /\ call.ret # CauseOfLine(call.args.lines[SetMin(ExitLinesOf(call.args.lines))])
    /\ call.ret = CauseOfLine(call.args.lines[SetMax(ExitLinesOf(call.args.lines))])

\* the line is a stat line: stripped, it is not blank, is no separator and has
\* the shape name value [# comment]
WellFormed(line) ==
    /\ strip(line) # ""
    /\ ~startswith(strip(line), "-")
    /\ STAT_LINE_RE(strip(line)).matched

\* the indexes of the stat lines of a report
StatLinesOf(lines) == {i \in DOMAIN lines : WellFormed(lines[i])}

NameOfLine(line) == STAT_LINE_RE(strip(line)).name

ValueOfLine(line) == float(STAT_LINE_RE(strip(line)).value)

\* C8 as stated: the mapping holds the (name, value) pair of every stat line
\* of the report and nothing else.
EveryStatLineKept ==
    call # NoneVal /\ call.fn = "parse_stats_file" =>
        LET lines == call.args.lines
        IN  /\ DOMAIN call.ret = {NameOfLine(lines[i]) : i \in StatLinesOf(lines)}
            /\ \A i \in StatLinesOf(lines) :
                  call.ret[NameOfLine(lines[i])] = ValueOfLine(lines[i])

\* C8, amended: the mapping holds the names of the stat lines of the report
\* and nothing else, each name with the value of the last stat line that has
\* it; the report without its other lines gives the same mapping; a report
\* that is missing gives the empty mapping.
LastStatLineKept ==
    call # NoneVal /\ call.fn = "parse_stats_file" =>
        LET lines == call.args.lines
            last(name) == SetMax({i \in StatLinesOf(lines) : NameOfLine(lines[i]) = name})
        IN  /\ ~call.args.exists => call.ret = EmptyDict
            /\ DOMAIN call.ret = {NameOfLine(lines[i]) : i \in StatLinesOf(lines)}
            /\ \A name \in DOMAIN call.ret :
                  call.ret[name] = ValueOfLine(lines[last(name)])
            /\ call.ret = parse_stats_file(FileOf(SelectSeq(lines, WellFormed)))

\* a report holds two stat lines for a name, with different values and a line
\* that is no stat line between them, and the mapping holds the second value
SecondValueKept ==
    /\ call # NoneVal /\ call.fn = "parse_stats_file"
    /\ Len(call.args.lines) = 3
    /\ StatLinesOf(call.args.lines) = {1, 3}
    /\ NameOfLine(call.args.lines[1]) = NameOfLine(call.args.lines[3])
    /\ ValueOfLine(call.args.lines[1]) # ValueOfLine(call.args.lines[3])
    /\ call.ret[NameOfLine(call.args.lines[3])] = ValueOfLine(call.args.lines[3])

(***************************************************************************)
(* Properties of Spec: the rows of the CSV and the data of the runs        *)
(***************************************************************************)

\* the (application, configuration) pairs of the rows rs
PairsOf(rs) == {<<rs[i].app, rs[i].l1>> : i \in DOMAIN rs}

\* the pairs that have data under the directory tree fs
PairsWithData ==
    {p \in {"dijkstra", "blowfish_enc", "blowfish_dec"} \X LabelSet :
        HasData(p[2], p[1])}
    \cup {<<"blowfish_total", l1>> : l1 \in
            {x \in LabelSet : HasData(x, "blowfish_enc") /\ HasData(x, "blowfish_dec")}}

\* C11: the CSV holds exactly one row per (application, configuration) pair that
\* has data: no pair appears twice, a row of dijkstra, blowfish_enc or blowfish_dec
\* exists for a configuration if and only if the stats file of that run gave a
\* non-empty mapping, and a row of blowfish_total exists if and only if both the
\* blowfish_enc and the blowfish_dec run of the configuration have data.
OneRowPerPairWithData ==
    \A i \in DOMAIN out :
        out[i].file = "csv" =>
            /\ Cardinality(PairsOf(out[i].rows)) = Len(out[i].rows)
            /\ PairsOf(out[i].rows) = PairsWithData

\* a CSV is written where a configuration has an encryption run with data and a
\* decryption run whose stats.txt exists and gave nothing: the configuration has
\* a row of blowfish_enc and none of blowfish_total; another has a row of dijkstra
EncRowWithoutTotalRow ==
    /\ out # <<>>
    /\ out[1].file = "csv"
    /\ \E l1 \in LabelSet :
          /\ HasData(l1, "blowfish_enc")
          /\ fs[l1]["blowfish_dec"] \in {"empty", "nolines"}
          /\ <<"blowfish_enc", l1>> \in PairsOf(out[1].rows)
          /\ <<"blowfish_total", l1>> \notin PairsOf(out[1].rows)
    /\ \E l1 \in LabelSet : <<"dijkstra", l1>> \in PairsOf(out[1].rows)

(***************************************************************************)
(* Properties of Spec: the runs whose input files are missing              *)
(***************************************************************************)

\* the position of the size l1 in l1_labels
IndexOf(l1) == CHOOSE i \in DOMAIN l1_labels : l1_labels[i] = l1

\* the application whose rows and series hold the run run_name
ShownAs(run_name) == IF run_name = "dijkstra" THEN {"dijkstra"}
                     ELSE {run_name, "blowfish_total"}

\* the files of out that are plots of the application app
PlotsOf(app) ==
    {i \in DOMAIN out :
        startswith(out[i].file,
                   IF app = "dijkstra" THEN "a15_dijkstra_" ELSE "a15_blowfish_")}

\* the run run_name of size l1 is in no row, no line of the LaTeX table, and is
\* not-a-number in every series plotted
LeftOut(l1, run_name) ==
    /\ \A app \in ShownAs(run_name) :
          /\ <<app, l1>> \notin PairsOf(rows)
          /\ \A i \in DOMAIN out :
                /\ out[i].file = "csv" => <<app, l1>> \notin PairsOf(out[i].rows)
                /\ out[i].file = "tex" =>
                      \A j \in DOMAIN out[i].lines :
                          (out[i].lines[j].title = "Dijkstra") = (app = "dijkstra")
                              => out[i].lines[j].l1_kb # l1_size_to_int_kb(l1)
          /\ app \in DOMAIN best => best[app].l1 # l1
    /\ \A i \in PlotsOf(IF run_name = "dijkstra" THEN "dijkstra" ELSE "blowfish_total") :
          isnan(out[i].y[IndexOf(l1)])

\* C12: missing input files are not fatal and give absent data: a missing
\* stats.txt gives the empty mapping from parse_stats_file and None from find_run,
\* a missing simout gives the empty cause from read_exit_cause, none of the three
\* raises, and main() goes on to its CSV; the run whose stats.txt is missing is
\* in no table and is not-a-number in every series plotted.
MissingFilesGiveAbsentData ==
    /\ parse_stats_file(Missing) = EmptyDict
    /\ ReadExitCauseAt(Missing) = ""
    /\ \A l1 \in DOMAIN fs : \A r \in DOMAIN RunNames :
          LET run_name == RunNames[r]
              dir == DirOf[fs[l1][run_name]]
          IN  /\ ~dir.stats.exists =>
                    /\ ParsedStats[fs[l1][run_name]] = EmptyDict
                    /\ find_run(fs, l1, run_name) = NoneVal
                    /\ LeftOut(l1, run_name)
              /\ ~dir.simout.exists =>
                    /\ read_exit_cause(fs, l1, run_name) = ""
                    /\ exit_cause[<<run_name, l1>>] = ""
    /\ pc \in {"read", "rows", "csv", "best_d"} => err = NoneVal

\* main() is done under a tree where a size has no dijkstra directory and another
\* has no blowfish_dec directory: the plots of cycles hold not-a-number at them
\* and a number at a size that has data
PlottedWithMissingRuns ==
    /\ pc = "done"
    /\ \E l1 \in LabelSet, l2 \in LabelSet, l3 \in LabelSet :
          /\ fs[l1]["dijkstra"] = "missing"
          /\ fs[l2]["blowfish_dec"] = "missing"
          /\ out[3].file = "a15_dijkstra_cycles.png"
          /\ isnan(out[3].y[IndexOf(l1)])
          /\ ~isnan(out[3].y[IndexOf(l3)])
          /\ out[9].file = "a15_blowfish_cycles.png"
          /\ isnan(out[9].y[IndexOf(l2)])
          /\ \E l4 \in LabelSet : ~isnan(out[9].y[IndexOf(l4)])

(***************************************************************************)
(* Properties of SpecBest: the completeness of blowfish_total              *)
(***************************************************************************)

\* both runs of the size l1 have a complete exit cause
BothComplete(l1) ==
    /\ is_complete_exit(exit_cause[<<"blowfish_enc", l1>>])
    /\ is_complete_exit(exit_cause[<<"blowfish_dec", l1>>])

\* the rows of blowfish_total in the CSV
TotalRows ==
    {r \in {out[1].rows[i] : i \in DOMAIN out[1].rows} : r.app = "blowfish_total"}

\* C13: the aggregate blowfish_total of a configuration is marked complete if and
\* only if both its blowfish_enc and its blowfish_dec run have a complete exit
\* cause, whatever is_complete_exit says of the combined text stored as its exit
\* cause; the column `complete` of the CSV and best_l1 use that same conjunction:
\* when a row of blowfish_total is marked complete, best_l1 returns a configuration
\* whose row is marked complete.
TotalCompleteIsConjunction ==
    /\ \A r \in TotalRows : (r.complete = 1) = BothComplete(r.l1)
    /\ "blowfish_total" \in DOMAIN best =>
          /\ (\E l1 \in WithData("blowfish_total") : BothComplete(l1))
                => BothComplete(best["blowfish_total"].l1)
          /\ (\E r \in TotalRows : r.complete = 1)
                => \E r \in TotalRows : /\ r.l1 = best["blowfish_total"].l1
                                        /\ r.complete = 1

\* best_l1 has returned a blowfish_total whose row is marked complete, although
\* another configuration has fewer cycles and a combined text that
\* is_complete_exit takes as complete: its row is marked incomplete, its
\* decryption run having an empty cause
CombinedTextOverruled ==
    /\ "blowfish_total" \in DOMAIN best
    /\ \E r \in TotalRows, q \in TotalRows :
          /\ r.l1 = best["blowfish_total"].l1
          /\ r.complete = 1
          /\ q.complete = 0
          /\ is_complete_exit(q.exit_cause)
          /\ exit_cause[<<"blowfish_dec", q.l1>>] = ""
          /\ FLt(q.numCycles, r.numCycles)

=============================================================================
